---- MODULE Spec2Model ----
(***************************************************************************)
(* Model of machine_learning/loss_functions.py: eleven independent loss    *)
(* functions over numpy arrays.  One call of one function is one           *)
(* behaviour: Init draws the function and its arguments, the function's    *)
(* action runs the whole body and records how the call ended.              *)
(*                                                                         *)
(* Numbers.  A float is a pair <<n, d>>: d > 0 is the finite value n/d in  *)
(* lowest terms, <<1,0>> is +inf, <<-1,0>> is -inf and <<0,0>> is NaN.     *)
(* Arithmetic follows IEEE-754 on the special values; a finite result is   *)
(* kept exact inside the representable range and leaves it the way a       *)
(* float does: beyond FloatMax it becomes an infinity, below the smallest  *)
(* positive float 1/TinyDen it is rounded to 0 or to 1/TinyDen.  Inside    *)
(* the range one rounding is modelled: a sum absorbs a term that is below  *)
(* half the float spacing 1/PrecDen of the other term.                     *)
(***************************************************************************)
EXTENDS Integers, Sequences, FiniteSets, TLC

VARIABLES fn, y_true, y_pred, inputs, target, hyper, entry, pc, result, log_args

vars == <<fn, y_true, y_pred, inputs, target, hyper, entry, pc, result, log_args>>

\* ------------------------------------------------------------------ bounds
\* Largest finite float of the model (float64: about 1.8e308).
FloatMax == 100
\* The smallest positive float of the model is 1/TinyDen (float64: 5e-324).
TinyDen == 1000
\* Floats next to x are x/PrecDen apart (float64: x * 2^-52).
PrecDen == 400
\* Longest 1-D array drawn as an argument.
MaxLen == 2

\* ------------------------------------------------------------------ floats
NaN == <<0, 0>>
PosInf == <<1, 0>>
NegInf == <<-1, 0>>

IAbs(i) == IF i < 0 THEN -i ELSE i

RECURSIVE Gcd(_, _)
Gcd(a, b) == IF b = 0 THEN a ELSE Gcd(b, a % b)

\* The finite value n/d, d # 0, in lowest terms with a positive denominator.
Q(n, d) ==
    LET g == Gcd(IAbs(n), IAbs(d))
        s == IF d < 0 THEN -1 ELSE 1
    IN  <<(s * n) \div g, (s * d) \div g>>

Zero == <<0, 1>>
One == <<1, 1>>
Half == <<1, 2>>
Tiny == Q(1, TinyDen)
Huge == Q(FloatMax, 1)

IsNaN(x) == x[2] = 0 /\ x[1] = 0
IsInf(x) == x[2] = 0 /\ x[1] # 0
IsFinite(x) == x[2] > 0
Sign(x) == IF x[1] > 0 THEN 1 ELSE IF x[1] < 0 THEN -1 ELSE 0

\* Exact comparisons of finite values and infinities (never called on NaN).
QLt(x, y) ==
    IF IsFinite(x) /\ IsFinite(y) THEN x[1] * y[2] < y[1] * x[2]
    ELSE IF IsInf(x) /\ IsInf(y) THEN x[1] < y[1]
    ELSE IF IsInf(x) THEN x[1] < 0
    ELSE y[1] > 0

\* IEEE comparisons: every ordered comparison with NaN is false, NaN != x is true.
FLt(x, y) == ~IsNaN(x) /\ ~IsNaN(y) /\ QLt(x, y)
FLe(x, y) == ~IsNaN(x) /\ ~IsNaN(y) /\ ~QLt(y, x)
FGt(x, y) == FLt(y, x)
FEq(x, y) == ~IsNaN(x) /\ ~IsNaN(y) /\ x = y
FNe(x, y) == ~FEq(x, y)

\* A finite exact result n/d stored as a float: overflow to an infinity, underflow
\* to the nearest of 0 and the smallest positive float (ties to 0, the even one).
Rnd(n, d) ==
    LET q == Q(n, d)
        an == IAbs(q[1])
    IN  IF q[1] = 0 THEN Zero
        ELSE IF an \div q[2] > FloatMax \/ (an \div q[2] = FloatMax /\ an % q[2] > 0)
             THEN <<Sign(q), 0>>
        ELSE IF q[2] \div an > TinyDen \/ (q[2] \div an = TinyDen /\ q[2] % an > 0)
             THEN IF q[2] \div an >= 2 * TinyDen THEN Zero
                  ELSE Q(Sign(q), TinyDen)
        ELSE q

FNeg(x) == <<-x[1], x[2]>>
FAbs(x) == <<IAbs(x[1]), x[2]>>

\* A finite nonzero term s is absorbed by a finite term b when it is no more than
\* half the spacing of the floats next to b: the float nearest to b + s is b.
Absorbed(s, b) ==
    s[1] # 0 /\ b[1] # 0
        /\ (IAbs(b[1]) * s[2]) \div (IAbs(s[1]) * b[2]) >= 2 * PrecDen

\* Float addition.  Beyond the special values, the rounding of a sum is modelled
\* where it loses a whole operand (absorption) and at the ends of the range; any
\* other sum is exact.
FAdd(x, y) ==
    IF IsNaN(x) \/ IsNaN(y) THEN NaN
    ELSE IF IsInf(x) /\ IsInf(y) THEN (IF x = y THEN x ELSE NaN)
    ELSE IF IsInf(x) THEN x
    ELSE IF IsInf(y) THEN y
    ELSE IF Absorbed(y, x) THEN x
    ELSE IF Absorbed(x, y) THEN y
    ELSE LET g == Gcd(x[2], y[2])
         IN  Rnd(x[1] * (y[2] \div g) + y[1] * (x[2] \div g), (x[2] \div g) * y[2])

FSub(x, y) == FAdd(x, FNeg(y))

FMul(x, y) ==
    IF IsNaN(x) \/ IsNaN(y) THEN NaN
    ELSE IF IsInf(x) \/ IsInf(y)
         THEN (IF Sign(x) * Sign(y) = 0 THEN NaN ELSE <<Sign(x) * Sign(y), 0>>)
    ELSE Rnd(x[1] * y[1], x[2] * y[2])

\* numpy's float division: x/0 is an infinity (NaN for 0/0), with a warning only.
FDiv(x, y) ==
    IF IsNaN(x) \/ IsNaN(y) THEN NaN
    ELSE IF IsInf(x) THEN (IF IsInf(y) THEN NaN
                           ELSE <<x[1] * (IF y[1] < 0 THEN -1 ELSE 1), 0>>)
    ELSE IF IsInf(y) THEN Zero
    ELSE IF y[1] = 0 THEN (IF x[1] = 0 THEN NaN ELSE <<Sign(x), 0>>)
    ELSE Rnd(x[1] * y[2], x[2] * y[1])

\* np.maximum / np.minimum propagate NaN.
FMax(x, y) == IF IsNaN(x) \/ IsNaN(y) THEN NaN ELSE IF QLt(x, y) THEN y ELSE x
FMin(x, y) == IF IsNaN(x) \/ IsNaN(y) THEN NaN ELSE IF QLt(y, x) THEN y ELSE x


\* Integer part of the square root of a natural number.
ISqrt(v) == CHOOSE k \in 0..v : k * k <= v /\ (k + 1) * (k + 1) > v

\* Denominator of the grid an irrational square root is rounded down to.
SqrtDen == 100

\* np.sqrt on a float: exact for a rational square, else rounded down to the grid.
FSqrt(x) ==
    IF IsNaN(x) \/ x[1] < 0 THEN NaN
    ELSE IF IsInf(x) THEN PosInf
    ELSE LET rn == ISqrt(x[1])
             rd == ISqrt(x[2])
         IN  IF rn * rn = x[1] /\ rd * rd = x[2] THEN Q(rn, rd)
             ELSE Q(ISqrt((x[1] * SqrtDen * SqrtDen) \div x[2]), SqrtDen)

\* np.log.  The special values are IEEE's (log 0 = -inf, log of a negative = NaN,
\* log 1 = 0); elsewhere the logarithm is stood in for by the increasing rational
\* map 2(x-1)/(x+1), which has the logarithm's sign.
Ln(x) ==
    IF IsNaN(x) \/ x[1] < 0 THEN NaN
    ELSE IF IsInf(x) THEN PosInf
    ELSE IF x[1] = 0 THEN NegInf
    ELSE Rnd(2 * (x[1] - x[2]), x[1] + x[2])

\* np.log1p(x) = log(1 + x), computed without forming the float 1 + x.
Log1p(x) ==
    IF IsNaN(x) THEN NaN
    ELSE IF IsInf(x) THEN (IF x[1] > 0 THEN PosInf ELSE NaN)
    ELSE IF x[1] + x[2] < 0 THEN NaN
    ELSE IF x[1] + x[2] = 0 THEN NegInf
    ELSE Rnd(2 * x[1], x[1] + 2 * x[2])

\* np.exp: the inverse (2+y)/(2-y) of the map standing in for the logarithm.
Exp(y) ==
    IF IsNaN(y) THEN NaN
    ELSE IF IsInf(y) THEN (IF y[1] > 0 THEN PosInf ELSE Zero)
    ELSE IF ~QLt(y, <<2, 1>>) THEN PosInf
    ELSE IF ~QLt(<<-2, 1>>, y) THEN Zero
    ELSE Rnd(2 * y[2] + y[1], 2 * y[2] - y[1])

\* x ** g for a natural exponent g.
RECURSIVE FPow(_, _)
FPow(x, g) == IF g = 0 THEN One ELSE FMul(FPow(x, g - 1), x)

\* ------------------------------------------------------------------ arrays
\* A 1-D array is a sequence of floats, a 2-D array a sequence of equally long
\* rows, a 3-D array a sequence of 2-D arrays.
RECURSIVE SumUpTo(_, _)
SumUpTo(a, k) == IF k = 0 THEN Zero ELSE FAdd(SumUpTo(a, k - 1), a[k])

\* np.sum of a 1-D array, left to right.
np_sum(a) == SumUpTo(a, Len(a))

\* np.mean of a 1-D array: the sum divided by the length (NaN for an empty array).
np_mean(a) == FDiv(np_sum(a), <<Len(a), 1>>)

\* shape of a 2-D array (rows, columns).
Shape2(a) == <<Len(a), IF Len(a) = 0 THEN 0 ELSE Len(a[1])>>

np_any(b) == \E i \in DOMAIN b : b[i]
np_all(b) == \A i \in DOMAIN b : b[i]

\* np.clip(a, lo, hi) = minimum(maximum(a, lo), hi) element by element.
Clip1(x, lo, hi) == FMin(FMax(x, lo), hi)

\* np.clip(a, lo, hi, out=a): the clipped values are written into the argument.
np_clip_in_place(a, lo, hi) ==
    [out |-> [i \in DOMAIN a |-> Clip1(a[i], lo, hi)],
     arg |-> [i \in DOMAIN a |-> Clip1(a[i], lo, hi)]]

\* np.minimum(a, hi) in place of np.clip: no lower bound is applied.
np_clip_upper_only(a, lo, hi) ==
    [out |-> [i \in DOMAIN a |-> FMin(a[i], hi)], arg |-> a]

\* np.clip without out=: the result is a new array ("out") and the argument array
\* ("arg") keeps its contents.
np_clip(a, lo, hi) ==
    [out |-> [i \in DOMAIN a |-> Clip1(a[i], lo, hi)], arg |-> a]

\* np.clip on a 2-D array.
np_clip2(a, lo, hi) ==
    [out |-> [r \in DOMAIN a |-> [c \in DOMAIN a[r] |-> Clip1(a[r][c], lo, hi)]],
     arg |-> a]

\* np.where(a == 0, x, a): a new array, the argument keeps its contents.
np_where_zero(a, x) ==
    [out |-> [i \in DOMAIN a |-> IF FEq(a[i], Zero) THEN x ELSE a[i]], arg |-> a]

\* np.isclose(a, b, rtol, atol) for scalars.
np_isclose(a, b, rtol, atol) ==
    \/ /\ IsFinite(a) /\ IsFinite(b)
       /\ FLe(FAbs(FSub(a, b)), FAdd(atol, FMul(rtol, FAbs(b))))
    \/ IsInf(a) /\ a = b

\* ------------------------------------------------------------------ outcomes
NoValue == <<>>
Ret(v) == [kind |-> "returned", msg |-> "", value |-> v]
Raise(k, m) == [kind |-> k, msg |-> m, value |-> NoValue]
Pending == [kind |-> "pending", msg |-> "", value |-> NoValue]

\* How a call ended (res), the caller's two arrays as the call left them, and the
\* values the call handed to np.log, in the order of the calls (logs).
OutLog(res, yt, yp, logs) == [res |-> res, y_true |-> yt, y_pred |-> yp, logs |-> logs]

\* A call that ended without calling np.log.
Out(res, yt, yp) == OutLog(res, yt, yp, <<>>)

\* ------------------------------------------------------------------ the library
binary_cross_entropy(yt, yp, epsilon) ==
    IF Len(yt) # Len(yp)
    THEN Out(Raise("ValueError", "Input arrays must have the same length."), yt, yp)
    ELSE LET c == np_clip(yp, epsilon, FSub(One, epsilon))
             p == c.out
             bce_loss == [i \in DOMAIN p |->
                 FNeg(FAdd(FMul(yt[i], Ln(p[i])),
                           FMul(FSub(One, yt[i]), Ln(FSub(One, p[i])))))]
         IN  OutLog(Ret(np_mean(bce_loss)), yt, c.arg,
                    p \o [i \in DOMAIN p |-> FSub(One, p[i])])

binary_focal_cross_entropy(yt, yp, gamma, alpha, epsilon) ==
    IF Len(yt) # Len(yp)
    THEN Out(Raise("ValueError", "Input arrays must have the same length."), yt, yp)
    ELSE LET c == np_clip(yp, epsilon, FSub(One, epsilon))
             p == c.out
             bcfe_loss == [i \in DOMAIN p |->
                 FNeg(FAdd(
                     FMul(FMul(FMul(alpha, FPow(FSub(One, p[i]), gamma)), yt[i]),
                          Ln(p[i])),
                     FMul(FMul(FMul(FSub(One, alpha), FPow(p[i], gamma)),
                               FSub(One, yt[i])),
                          Ln(FSub(One, p[i])))))]
         IN  OutLog(Ret(np_mean(bcfe_loss)), yt, c.arg,
                    p \o [i \in DOMAIN p |-> FSub(One, p[i])])

\* The entries of a 2-D array, row after row.
RECURSIVE Flatten(_)
Flatten(a) == IF a = <<>> THEN <<>> ELSE Head(a) \o Flatten(Tail(a))

\* categorical_cross_entropy without the row-sum half of its one-hot check.
categorical_cross_entropy_no_row_sum(yt, yp, epsilon) ==
    IF Shape2(yt) # Shape2(yp)
    THEN Out(Raise("ValueError", "Input arrays must have the same shape."), yt, yp)
    ELSE IF np_any([k \in DOMAIN Flatten(yt) |->
                       FNe(Flatten(yt)[k], Zero) /\ FNe(Flatten(yt)[k], One)])
    THEN Out(Raise("ValueError", "y_true must be one-hot encoded."), yt, yp)
    ELSE IF ~np_all([r \in DOMAIN yp |->
                        np_isclose(np_sum(yp[r]), One, epsilon, epsilon)])
    THEN Out(Raise("ValueError", "Predicted probabilities must sum to approximately 1."),
             yt, yp)
    ELSE LET c == np_clip2(yp, epsilon, One)
             p == c.out
             terms == [r \in DOMAIN p |->
                          [k \in DOMAIN p[r] |-> FMul(yt[r][k], Ln(p[r][k]))]]
         IN  OutLog(Ret(FNeg(np_sum(Flatten(terms)))), yt, c.arg, Flatten(p))

categorical_cross_entropy(yt, yp, epsilon) ==
    IF Shape2(yt) # Shape2(yp)
    THEN Out(Raise("ValueError", "Input arrays must have the same shape."), yt, yp)
    ELSE IF \/ np_any([k \in DOMAIN Flatten(yt) |->
                          FNe(Flatten(yt)[k], Zero) /\ FNe(Flatten(yt)[k], One)])
            \/ np_any([r \in DOMAIN yt |-> FNe(np_sum(yt[r]), One)])
    THEN Out(Raise("ValueError", "y_true must be one-hot encoded."), yt, yp)
    ELSE IF ~np_all([r \in DOMAIN yp |->
                        np_isclose(np_sum(yp[r]), One, epsilon, epsilon)])
    THEN Out(Raise("ValueError", "Predicted probabilities must sum to approximately 1."),
             yt, yp)
    ELSE LET c == np_clip2(yp, epsilon, One)
             p == c.out
             terms == [r \in DOMAIN p |->
                          [k \in DOMAIN p[r] |-> FMul(yt[r][k], Ln(p[r][k]))]]
         IN  OutLog(Ret(FNeg(np_sum(Flatten(terms)))), yt, c.arg, Flatten(p))

\* hinge_loss with its two checks in the other order.
hinge_loss_label_check_first(yt, yp) ==
    IF np_any([i \in DOMAIN yt |-> FNe(yt[i], <<-1, 1>>) /\ FNe(yt[i], One)])
    THEN Out(Raise("ValueError", "y_true can have values -1 or 1 only."), yt, yp)
    ELSE IF Len(yt) # Len(yp)
    THEN Out(Raise("ValueError", "Length of predicted and actual array must be same."),
             yt, yp)
    ELSE LET hinge_losses == [i \in DOMAIN yt |->
                 FMax(Zero, FSub(One, FMul(yt[i], yp[i])))]
         IN  Out(Ret(np_mean(hinge_losses)), yt, yp)

\* hinge_loss without the maximum with 0.
hinge_loss_no_clamp(yt, yp) ==
    IF Len(yt) # Len(yp)
    THEN Out(Raise("ValueError", "Length of predicted and actual array must be same."),
             yt, yp)
    ELSE IF np_any([i \in DOMAIN yt |-> FNe(yt[i], <<-1, 1>>) /\ FNe(yt[i], One)])
    THEN Out(Raise("ValueError", "y_true can have values -1 or 1 only."), yt, yp)
    ELSE Out(Ret(np_mean([i \in DOMAIN yt |-> FSub(One, FMul(yt[i], yp[i]))])), yt, yp)

hinge_loss(yt, yp) ==
    IF Len(yt) # Len(yp)
    THEN Out(Raise("ValueError", "Length of predicted and actual array must be same."),
             yt, yp)
    ELSE IF np_any([i \in DOMAIN yt |-> FNe(yt[i], <<-1, 1>>) /\ FNe(yt[i], One)])
    THEN Out(Raise("ValueError", "y_true can have values -1 or 1 only."), yt, yp)
    ELSE LET hinge_losses == [i \in DOMAIN yt |->
                 FMax(Zero, FSub(One, FMul(yt[i], yp[i])))]
         IN  Out(Ret(np_mean(hinge_losses)), yt, yp)

\* huber_loss with the linear branch delta * |e| - 0.5 * delta.
huber_loss_unsquared_delta(yt, yp, delta) ==
    IF Len(yt) # Len(yp)
    THEN Out(Raise("ValueError", "Input arrays must have the same length."), yt, yp)
    ELSE LET e(i) == FSub(yt[i], yp[i])
             huber_mse == [i \in DOMAIN yt |-> FMul(Half, FMul(e(i), e(i)))]
             huber_mae == [i \in DOMAIN yt |->
                 FSub(FMul(delta, FAbs(e(i))), FMul(Half, delta))]
             chosen == [i \in DOMAIN yt |->
                 IF FLe(FAbs(e(i)), delta) THEN huber_mse[i] ELSE huber_mae[i]]
         IN  Out(Ret(np_mean(chosen)), yt, yp)

huber_loss(yt, yp, delta) ==
    IF Len(yt) # Len(yp)
    THEN Out(Raise("ValueError", "Input arrays must have the same length."), yt, yp)
    ELSE LET e(i) == FSub(yt[i], yp[i])
             huber_mse == [i \in DOMAIN yt |-> FMul(Half, FMul(e(i), e(i)))]
             huber_mae == [i \in DOMAIN yt |->
                 FMul(delta, FSub(FAbs(e(i)), FMul(Half, delta)))]
             chosen == [i \in DOMAIN yt |->
                 IF FLe(FAbs(e(i)), delta) THEN huber_mse[i] ELSE huber_mae[i]]
         IN  Out(Ret(np_mean(chosen)), yt, yp)

mean_squared_error(yt, yp) ==
    IF Len(yt) # Len(yp)
    THEN Out(Raise("ValueError", "Input arrays must have the same length."), yt, yp)
    ELSE LET squared_errors == [i \in DOMAIN yt |->
                 FMul(FSub(yt[i], yp[i]), FSub(yt[i], yp[i]))]
         IN  Out(Ret(np_mean(squared_errors)), yt, yp)

\* mean_absolute_error without the abs.
mean_absolute_error_no_abs(yt, yp) ==
    IF Len(yt) # Len(yp)
    THEN Out(Raise("ValueError", "Input arrays must have the same length."), yt, yp)
    ELSE Out(Ret(np_mean([i \in DOMAIN yt |-> FSub(yt[i], yp[i])])), yt, yp)

mean_absolute_error(yt, yp) ==
    IF Len(yt) # Len(yp)
    THEN Out(Raise("ValueError", "Input arrays must have the same length."), yt, yp)
    ELSE Out(Ret(np_mean([i \in DOMAIN yt |-> FAbs(FSub(yt[i], yp[i]))])), yt, yp)

mean_squared_logarithmic_error(yt, yp) ==
    IF Len(yt) # Len(yp)
    THEN Out(Raise("ValueError", "Input arrays must have the same length."), yt, yp)
    ELSE LET d(i) == FSub(Log1p(yt[i]), Log1p(yp[i]))
             squared_logarithmic_errors == [i \in DOMAIN yt |-> FMul(d(i), d(i))]
         IN  Out(Ret(np_mean(squared_logarithmic_errors)), yt, yp)

\* mean_absolute_percentage_error dividing by y_true as given.
mean_absolute_percentage_error_no_substitution(yt, yp, epsilon) ==
    IF Len(yt) # Len(yp)
    THEN Out(Raise("ValueError", "The length of the two arrays should be the same."),
             yt, yp)
    ELSE Out(Ret(np_mean([i \in DOMAIN yt |->
                 FAbs(FDiv(FSub(yt[i], yp[i]), yt[i]))])), yt, yp)

mean_absolute_percentage_error(yt, yp, epsilon) ==
    IF Len(yt) # Len(yp)
    THEN Out(Raise("ValueError", "The length of the two arrays should be the same."),
             yt, yp)
    ELSE LET w == np_where_zero(yt, epsilon)
             y == w.out
             absolute_percentage_diff == [i \in DOMAIN y |->
                 FAbs(FDiv(FSub(y[i], yp[i]), y[i]))]
         IN  Out(Ret(np_mean(absolute_percentage_diff)), w.arg, yp)

\* np.max of a 2-D array of integer labels.
IntMax(a) ==
    LET labels == UNION {{a[r][k] : k \in DOMAIN a[r]} : r \in DOMAIN a}
    IN  CHOOSE x \in labels : \A y \in labels : y <= x

\* np.eye(n)[word]: row word of the identity matrix.  A negative index counts from
\* the end; an index outside -n .. n-1 raises IndexError (no row).
EyeRowOk(n, word) == -n <= word /\ word < n
EyeRow(n, word) ==
    LET w == IF word < 0 THEN word + n ELSE word
    IN  [v \in 1..n |-> IF v = w + 1 THEN One ELSE Zero]

\* y_true: integer labels, shape (B, T); y_pred: floats, shape (B, T, V).
perplexity_loss(yt, yp, epsilon) ==
    LET vocab_size == Len(yp[1][1])
    IN  IF Len(yt) # Len(yp)
        THEN Out(Raise("ValueError", "Batch size of y_true and y_pred must be equal."),
                 yt, yp)
        ELSE IF Len(yt[1]) # Len(yp[1])
        THEN Out(Raise("ValueError",
                       "Sentence length of y_true and y_pred must be equal."), yt, yp)
        ELSE IF IntMax(yt) > vocab_size
        THEN Out(Raise("ValueError",
                       "Label value must not be greater than vocabulary size."), yt, yp)
        ELSE IF \E b \in DOMAIN yt : \E t \in DOMAIN yt[b] :
                    ~EyeRowOk(vocab_size, yt[b][t])
        THEN Out(Raise("IndexError", "index is out of bounds for axis 0"), yt, yp)
        ELSE LET filter_matrix == [b \in DOMAIN yt |-> [t \in DOMAIN yt[b] |->
                     EyeRow(vocab_size, yt[b][t])]]
                 true_class_pred == [b \in DOMAIN yp |-> [t \in DOMAIN yp[b] |->
                     Clip1(np_sum([v \in 1..vocab_size |->
                               FMul(yp[b][t][v], filter_matrix[b][t][v])]),
                           epsilon, One)]]
                 perp_losses == [b \in DOMAIN yp |->
                     Exp(FNeg(np_mean([t \in DOMAIN yp[b] |->
                                          Ln(true_class_pred[b][t])])))]
             IN  OutLog(Ret(np_mean(perp_losses)), yt, yp, Flatten(true_class_pred))

\* a[mask]: the entries of a at the positions where keep is TRUE, in order.
RECURSIVE MaskUpTo(_, _, _)
MaskUpTo(a, keep, k) ==
    IF k = 0 THEN <<>>
    ELSE MaskUpTo(a, keep, k - 1) \o (IF keep[k] THEN <<a[k]>> ELSE <<>>)

BoolIndex(a, keep) == MaskUpTo(a, keep, Len(a))

\* x.astype("bool"): zero is False, everything else (NaN too) is True.
AsBool(x) == ~FEq(x, Zero)

\* np.subtract.reduce(pair, axis=0) of one batch entry: row 0 minus every later row.
RECURSIVE SubtractReduceUpTo(_, _, _)
SubtractReduceUpTo(rows, k, j) ==
    IF j = 1 THEN rows[1][k]
    ELSE FSub(SubtractReduceUpTo(rows, k, j - 1), rows[j][k])

\* np.linalg.norm of a vector: sqrt of the sum of the squared absolute values.
Norm(v) == FSqrt(np_sum([k \in DOMAIN v |-> FMul(FAbs(v[k]), FAbs(v[k]))]))

\* contrastive_loss summing m - d over the dissimilar pairs, without the maximum.
contrastive_loss_no_clamp(ins, tg, m) ==
    IF Len(ins) # Len(tg)
    THEN Out(Raise("ValueError",
                   "batch size of inputs and target parameter must be equal."), tg, ins)
    ELSE IF Len(ins[1]) # 2
    THEN Out(Raise("ValueError", "inputs shape must be equal to (batch_size, 2, n)"),
             tg, ins)
    ELSE IF np_any([b \in DOMAIN tg |-> FNe(tg[b], One) /\ FNe(tg[b], Zero)])
    THEN Out(Raise("ValueError", "target values must be either 0 or 1."), tg, ins)
    ELSE LET euclidean_dist == [b \in DOMAIN ins |->
                 Norm([k \in DOMAIN ins[b][1] |->
                          SubtractReduceUpTo(ins[b], k, Len(ins[b]))])]
             error_similar == np_sum(BoolIndex(euclidean_dist,
                                               [b \in DOMAIN tg |-> ~AsBool(tg[b])]))
             picked == BoolIndex(euclidean_dist, [b \in DOMAIN tg |-> AsBool(tg[b])])
             error_dissimilar == np_sum([j \in DOMAIN picked |-> FSub(m, picked[j])])
         IN  Out(Ret(FAdd(error_similar, error_dissimilar)), tg, ins)

\* contrastive_loss rejecting a target only when every element is outside {0, 1}.
contrastive_loss_all_invalid(ins, tg, m) ==
    IF Len(ins) # Len(tg)
    THEN Out(Raise("ValueError",
                   "batch size of inputs and target parameter must be equal."), tg, ins)
    ELSE IF Len(ins[1]) # 2
    THEN Out(Raise("ValueError", "inputs shape must be equal to (batch_size, 2, n)"),
             tg, ins)
    ELSE IF np_all([b \in DOMAIN tg |-> FNe(tg[b], One) /\ FNe(tg[b], Zero)])
    THEN Out(Raise("ValueError", "target values must be either 0 or 1."), tg, ins)
    ELSE Out(Ret(Zero), tg, ins)

\* ins: floats, shape (B, K, n) with B >= 1; tg: shape (B); the caller's arrays are
\* only read.
contrastive_loss(ins, tg, m) ==
    IF Len(ins) # Len(tg)
    THEN Out(Raise("ValueError",
                   "batch size of inputs and target parameter must be equal."), tg, ins)
    ELSE IF Len(ins[1]) # 2
    THEN Out(Raise("ValueError", "inputs shape must be equal to (batch_size, 2, n)"),
             tg, ins)
    ELSE IF np_any([b \in DOMAIN tg |-> FNe(tg[b], One) /\ FNe(tg[b], Zero)])
    THEN Out(Raise("ValueError", "target values must be either 0 or 1."), tg, ins)
    ELSE LET euclidean_dist == [b \in DOMAIN ins |->
                 Norm([k \in DOMAIN ins[b][1] |->
                          SubtractReduceUpTo(ins[b], k, Len(ins[b]))])]
             similar == [b \in DOMAIN tg |-> ~AsBool(tg[b])]
             dissimilar == [b \in DOMAIN tg |-> AsBool(tg[b])]
             error_similar == np_sum(BoolIndex(euclidean_dist, similar))
             picked == BoolIndex(euclidean_dist, dissimilar)
             error_dissimilar == np_sum([j \in DOMAIN picked |->
                 FMax(Zero, FSub(m, picked[j]))])
         IN  Out(Ret(FAdd(error_similar, error_dissimilar)), tg, ins)

\* ------------------------------------------------------------------ arguments
\* Largest number of rows / columns of a 2-D argument, of batch entries and of
\* sentence positions.
MaxDim == 2

\* All 1-D arrays over the values V of length 0 .. MaxLen.
Arrays(V) == UNION {[1..n -> V] : n \in 0..MaxLen}

\* All 2-D arrays of 1 .. MaxDim rows taken from the rows Rows.
Matrices(Rows) == UNION {[1..r -> Rows] : r \in 1..MaxDim}

F(n) == <<n, 1>>

\* Label and prediction values drawn for each function; the label sets hold values
\* outside the function's label domain.
BinaryLabels == {Zero, One}
Probabilities == {Q(-1, 2), Zero, Half, One, Q(3, 2), NaN}
HingeLabels == {F(-1), One, Zero}
HingePredictions == {F(-1), Half, One, F(3)}
HuberTruths == {Zero, One, F(3)}
HuberPredictions == {Zero, Half, F(2)}
Deltas == {Half, One, F(2)}
\* Floats of every kind, in two groups: zero, the smallest positive float, an
\* ordinary value and NaN; zero, an ordinary value, the largest finite float and
\* an infinity.
SmallFloats == {Zero, Tiny, F(-1), NaN}
LargeFloats == {Zero, F(-1), Huge, PosInf}
LogTruths == {Zero, One, F(3)}
PercentTruths == {Zero, One, F(-2)}
PercentPredictions == {Zero, One, F(3)}
\* Clip bounds: the smallest positive float, two ordinary values and 1/2.
Epsilons == {Tiny, Q(1, 10), Q(1, 5), Half}

\* Rows of c columns for categorical_cross_entropy: y_true rows that are one-hot,
\* all zero, hold two ones or hold a 2; y_pred rows whose sums are 1, 6/5, 7/10, 2
\* (and, from two columns on, a row of sum 1 with an entry above 1 and one below 0).
UnitRow(c, k) == [j \in 1..c |-> IF j = k THEN One ELSE Zero]
TrueRows(c) ==
    {UnitRow(c, k) : k \in 1..c}
        \cup {[j \in 1..c |-> Zero], [j \in 1..c |-> IF j = 1 THEN F(2) ELSE Zero]}
        \cup (IF c >= 2 THEN {[j \in 1..c |-> IF j <= 2 THEN One ELSE Zero]} ELSE {})
PredRows(c) ==
    IF c = 1 THEN {<<One>>, <<Q(6, 5)>>, <<Q(7, 10)>>, <<F(2)>>}
    ELSE {[j \in 1..c |-> IF j = 1 THEN x[1] ELSE IF j = 2 THEN x[2] ELSE Zero] :
            x \in {<<One, Zero>>, <<Q(1, 5), One>>, <<Half, Q(1, 5)>>,
                   <<Q(6, 5), Q(-1, 5)>>}}

\* The arguments of the doctests that the claims quote.
HingeDoctestTrue == <<F(-1), One, One, F(-1), One>>
HingeDoctestPred == <<F(-4), Q(-3, 10), Q(7, 10), F(5), F(10)>>
PercentDoctestTrue == <<F(10), F(20), F(30), F(40)>>
PercentDoctestPred == <<F(12), F(18), F(33), F(45)>>

NoHyper == [epsilon |-> Zero, gamma |-> 0, alpha |-> Zero, delta |-> Zero, m |-> Zero]

\* The state at the call: the caller's arrays, the hyperparameters, nothing run.
Enter(f, yt, yp, ins, tg, h) ==
    /\ fn = f
    /\ y_true = yt
    /\ y_pred = yp
    /\ inputs = ins
    /\ target = tg
    /\ hyper = h
    /\ entry = [y_true |-> yt, y_pred |-> yp, inputs |-> ins, target |-> tg]
    /\ pc = "call"
    /\ result = Pending
    /\ log_args = <<>>

InitBinary ==
    \E f \in {"binary_cross_entropy", "binary_focal_cross_entropy"} :
    \E yt \in Arrays(BinaryLabels), yp \in Arrays(Probabilities), e \in Epsilons :
        Enter(f, yt, yp, <<>>, <<>>,
              [NoHyper EXCEPT !.epsilon = e, !.gamma = 2, !.alpha = Q(1, 4)])

InitCategorical ==
    \E c1, c2 \in 1..MaxDim :
    \E yt \in Matrices(TrueRows(c1)), yp \in Matrices(PredRows(c2)), e \in Epsilons :
        Enter("categorical_cross_entropy", yt, yp, <<>>, <<>>,
              [NoHyper EXCEPT !.epsilon = e])

InitHinge ==
    \/ \E yt \in Arrays(HingeLabels), yp \in Arrays(HingePredictions) :
           Enter("hinge_loss", yt, yp, <<>>, <<>>, NoHyper)
    \/ Enter("hinge_loss", HingeDoctestTrue, HingeDoctestPred, <<>>, <<>>, NoHyper)

InitHuber ==
    \E yt \in Arrays(HuberTruths), yp \in Arrays(HuberPredictions), d \in Deltas :
        Enter("huber_loss", yt, yp, <<>>, <<>>, [NoHyper EXCEPT !.delta = d])

InitMeanError ==
    \E f \in {"mean_squared_error", "mean_absolute_error"} :
    \E V \in {SmallFloats, LargeFloats} :
    \E yt \in Arrays(V), yp \in Arrays(V) :
        Enter(f, yt, yp, <<>>, <<>>, NoHyper)

InitLogError ==
    \E yt \in Arrays(LogTruths), yp \in Arrays(LogTruths) :
        Enter("mean_squared_logarithmic_error", yt, yp, <<>>, <<>>, NoHyper)

InitPercent ==
    \/ \E yt \in Arrays(PercentTruths), yp \in Arrays(PercentPredictions),
          e \in Epsilons :
           Enter("mean_absolute_percentage_error", yt, yp, <<>>, <<>>,
                 [NoHyper EXCEPT !.epsilon = e])
    \/ \E e \in Epsilons :
           Enter("mean_absolute_percentage_error", PercentDoctestTrue,
                 PercentDoctestPred, <<>>, <<>>, [NoHyper EXCEPT !.epsilon = e])

\* Vocabulary size of the y_pred drawn for perplexity_loss.
VocabSize == 2

\* Labels drawn for perplexity_loss: every index of the vocabulary, the two values
\* just above it (VocabSize and VocabSize + 1) and a negative one.
PerplexityLabels == -1 .. VocabSize + 1

\* y_true of shape (b, t): label 0 everywhere, but for at most one position.
LabelArrays(b, t) ==
    {[i \in 1..b |-> [j \in 1..t |-> 0]]}
        \cup {[i \in 1..b |-> [j \in 1..t |-> IF i = bi /\ j = tj THEN w ELSE 0]] :
                bi \in 1..b, tj \in 1..t, w \in PerplexityLabels}

\* A row of class probabilities: "ramp" holds the VocabSize distinct probabilities
\* 1/s, 2/s, ..., VocabSize/s (s their sum) rotated by k, "onehot" a single 1,
\* "wide" a 3/2 among values of -1/2, "nan" a NaN among zeros.
TokenRow(pattern, k) ==
    [v \in 1..VocabSize |->
        LET j == ((v - 1 + k) % VocabSize) + 1
        IN  IF pattern = "ramp" THEN Q(2 * j, VocabSize * (VocabSize + 1))
            ELSE IF pattern = "onehot" THEN (IF j = 1 THEN One ELSE Zero)
            ELSE IF pattern = "wide" THEN (IF j = 1 THEN Q(3, 2) ELSE Q(-1, 2))
            ELSE IF j = 1 THEN NaN ELSE Zero]

\* y_pred of shape (b, t, VocabSize), the row rotating with the position.
PredictionArray(b, t, pattern, k) ==
    [i \in 1..b |-> [j \in 1..t |-> TokenRow(pattern, k + i + j)]]

InitPerplexity ==
    \E b1, t1, b2, t2 \in 1..MaxDim :
    \E yt \in LabelArrays(b1, t1), pattern \in {"ramp", "onehot", "wide", "nan"},
       k \in 0..VocabSize - 1, e \in Epsilons :
        Enter("perplexity_loss", yt, PredictionArray(b2, t2, pattern, k), <<>>, <<>>,
              [NoHyper EXCEPT !.epsilon = e])

\* Batch entries for contrastive_loss: pairs of 2-vectors at distance 0, 5, 4 and
\* sqrt(2), and malformed entries of one and of three vectors.
Pairs ==
    {<<<<Zero, Zero>>, <<Zero, Zero>>>>, <<<<F(3), F(4)>>, <<Zero, Zero>>>>,
     <<<<F(3), F(4)>>, <<F(3), Zero>>>>, <<<<Zero, Zero>>, <<One, One>>>>}
Single == <<<<F(3), F(4)>>>>
Triple == <<<<Zero, Zero>>, <<F(3), F(4)>>, <<F(3), Zero>>>>
TargetValues == {Zero, One, F(5)}
Margins == {One, F(4), F(10)}

InitContrastive ==
    \E ins \in Matrices(Pairs) \cup Matrices({Single}) \cup Matrices({Triple}),
       tg \in Arrays(TargetValues), m \in Margins :
        Enter("contrastive_loss", <<>>, <<>>, ins, tg, [NoHyper EXCEPT !.m = m])

Init ==
    \/ InitBinary
    \/ InitCategorical
    \/ InitHinge
    \/ InitHuber
    \/ InitMeanError
    \/ InitLogError
    \/ InitPercent
    \/ InitPerplexity
    \/ InitContrastive

\* ------------------------------------------------------------------ the calls
\* A call of a function on y_true, y_pred: it runs to its return or its raise.
Finish(o) ==
    /\ pc = "call"
    /\ pc' = "done"
    /\ result' = o.res
    /\ y_true' = o.y_true
    /\ y_pred' = o.y_pred
    /\ log_args' = o.logs
    /\ UNCHANGED <<fn, inputs, target, hyper, entry>>

Call_binary_cross_entropy ==
    /\ fn = "binary_cross_entropy"
    /\ Finish(binary_cross_entropy(y_true, y_pred, hyper.epsilon))

Call_binary_focal_cross_entropy ==
    /\ fn = "binary_focal_cross_entropy"
    /\ Finish(binary_focal_cross_entropy(y_true, y_pred, hyper.gamma, hyper.alpha,
                                         hyper.epsilon))

Call_categorical_cross_entropy ==
    /\ fn = "categorical_cross_entropy"
    /\ Finish(categorical_cross_entropy(y_true, y_pred, hyper.epsilon))

Call_hinge_loss ==
    /\ fn = "hinge_loss"
    /\ Finish(hinge_loss(y_true, y_pred))

Call_huber_loss ==
    /\ fn = "huber_loss"
    /\ Finish(huber_loss(y_true, y_pred, hyper.delta))

Call_mean_squared_error ==
    /\ fn = "mean_squared_error"
    /\ Finish(mean_squared_error(y_true, y_pred))

Call_mean_absolute_error ==
    /\ fn = "mean_absolute_error"
    /\ Finish(mean_absolute_error(y_true, y_pred))

Call_mean_squared_logarithmic_error ==
    /\ fn = "mean_squared_logarithmic_error"
    /\ Finish(mean_squared_logarithmic_error(y_true, y_pred))

Call_mean_absolute_percentage_error ==
    /\ fn = "mean_absolute_percentage_error"
    /\ Finish(mean_absolute_percentage_error(y_true, y_pred, hyper.epsilon))

Call_perplexity_loss ==
    /\ fn = "perplexity_loss"
    /\ Finish(perplexity_loss(y_true, y_pred, hyper.epsilon))

\* contrastive_loss runs on inputs, target.
Call_contrastive_loss ==
    /\ fn = "contrastive_loss"
    /\ pc = "call"
    /\ LET o == contrastive_loss(inputs, target, hyper.m)
       IN  /\ pc' = "done"
           /\ result' = o.res
           /\ target' = o.y_true
           /\ inputs' = o.y_pred
           /\ log_args' = o.logs
    /\ UNCHANGED <<fn, y_true, y_pred, hyper, entry>>

Next ==
    \/ Call_binary_cross_entropy
    \/ Call_binary_focal_cross_entropy
    \/ Call_categorical_cross_entropy
    \/ Call_hinge_loss
    \/ Call_huber_loss
    \/ Call_mean_squared_error
    \/ Call_mean_absolute_error
    \/ Call_mean_squared_logarithmic_error
    \/ Call_mean_absolute_percentage_error
    \/ Call_perplexity_loss
    \/ Call_contrastive_loss

Spec == Init /\ [][Next]_vars

\* ------------------------------------------------------------------ properties
Done == pc = "done"
Returned == result.kind = "returned"
Invalid(message) == result = Raise("ValueError", message)

\* The functions whose first statement compares len(y_true) and len(y_pred), and
\* the message each raises.
LengthChecked ==
    {"binary_cross_entropy", "binary_focal_cross_entropy", "hinge_loss", "huber_loss",
     "mean_squared_error", "mean_absolute_error", "mean_squared_logarithmic_error",
     "mean_absolute_percentage_error"}
LengthMessage(f) ==
    IF f = "hinge_loss" THEN "Length of predicted and actual array must be same."
    ELSE IF f = "mean_absolute_percentage_error"
         THEN "The length of the two arrays should be the same."
    ELSE "Input arrays must have the same length."

\* C1: a call of one of the eight length-checked functions on arrays of different
\* lengths, or of categorical_cross_entropy on arrays of different shapes, ends in
\* the ValueError of the length (shape) check and returns no number, whatever the
\* element values are, label-domain and normalization violations included.
C1_MismatchRaisesFirst ==
    Done =>
        /\ (fn \in LengthChecked /\ Len(entry.y_true) # Len(entry.y_pred))
               => Invalid(LengthMessage(fn)) /\ result.value = NoValue
        /\ (fn = "categorical_cross_entropy"
                /\ Shape2(entry.y_true) # Shape2(entry.y_pred))
               => Invalid("Input arrays must have the same shape.")
                  /\ result.value = NoValue

\* C1's case: hinge_loss was called on arrays of different lengths with a y_true
\* element outside {-1, 1}, and raised.
C1_Witness ==
    /\ Done
    /\ fn = "hinge_loss"
    /\ Len(entry.y_true) # Len(entry.y_pred)
    /\ \E i \in DOMAIN entry.y_true : entry.y_true[i] = Zero
    /\ result.kind = "ValueError"

\* A row that is exactly one-hot: one entry 1, every other entry 0.
IsOneHot(row) ==
    \E k \in DOMAIN row : row[k] = One /\ \A j \in DOMAIN row \ {k} : row[j] = Zero

\* |s - 1| <= epsilon + epsilon * 1 for the sum s of a row.
SumWithinTolerance(row, epsilon) ==
    LET s == np_sum(row)
    IN  IsFinite(s) /\ ~QLt(FAdd(epsilon, FMul(epsilon, One)), FAbs(FSub(s, One)))

\* C2: categorical_cross_entropy on arrays of one shape raises 'y_true must be
\* one-hot encoded.' when some y_true row is not exactly one-hot; with every y_true
\* row one-hot it raises 'Predicted probabilities must sum to approximately 1.'
\* when some y_pred row sum is outside the tolerance; it returns a number only when
\* every row passes both checks.
C2_CategoricalValidation ==
    (Done /\ fn = "categorical_cross_entropy"
          /\ Shape2(entry.y_true) = Shape2(entry.y_pred)) =>
        LET hot == \A r \in DOMAIN entry.y_true : IsOneHot(entry.y_true[r])
            normal == \A r \in DOMAIN entry.y_pred :
                          SumWithinTolerance(entry.y_pred[r], hyper.epsilon)
        IN  /\ ~hot => Invalid("y_true must be one-hot encoded.")
            /\ (hot /\ ~normal)
                   => Invalid("Predicted probabilities must sum to approximately 1.")
            /\ Returned => hot /\ normal

\* C2's case: every y_true row is one-hot, a y_pred row sums outside the tolerance,
\* and the call raised.
C2_Witness ==
    /\ Done
    /\ fn = "categorical_cross_entropy"
    /\ Shape2(entry.y_true) = Shape2(entry.y_pred)
    /\ \A r \in DOMAIN entry.y_true : IsOneHot(entry.y_true[r])
    /\ \E r \in DOMAIN entry.y_pred :
           ~SumWithinTolerance(entry.y_pred[r], hyper.epsilon)
    /\ result.kind = "ValueError"

\* C3: hinge_loss on arrays of one length raises when some y_true element is
\* neither -1 nor 1; contrastive_loss with matching batch size and second axis 2
\* raises when some target element is neither 0 nor 1; one such element suffices
\* and no loss is returned.
C3_LabelDomainRejected ==
    Done =>
        /\ (fn = "hinge_loss" /\ Len(entry.y_true) = Len(entry.y_pred)
                /\ \E i \in DOMAIN entry.y_true :
                       entry.y_true[i] \notin {F(-1), One})
               => Invalid("y_true can have values -1 or 1 only.")
                  /\ result.value = NoValue
        /\ (fn = "contrastive_loss" /\ Len(entry.inputs) = Len(entry.target)
                /\ Len(entry.inputs[1]) = 2
                /\ \E b \in DOMAIN entry.target : entry.target[b] \notin {Zero, One})
               => Invalid("target values must be either 0 or 1.")
                  /\ result.value = NoValue

\* C3's case: contrastive_loss was called on a well-shaped batch of two pairs whose
\* target holds one valid and one invalid element, and raised.
C3_Witness ==
    /\ Done
    /\ fn = "contrastive_loss"
    /\ Len(entry.inputs) = 2
    /\ Len(entry.inputs[1]) = 2
    /\ entry.target = <<Zero, F(5)>>
    /\ result.kind = "ValueError"

\* C4: perplexity_loss with matching batch size and sentence length raises the
\* ValueError 'Label value must not be greater than vocabulary size.' whenever a
\* label is greater than or equal to the vocabulary size.
C4_LabelAtLeastVocabRaises ==
    (Done /\ fn = "perplexity_loss" /\ Len(entry.y_true) = Len(entry.y_pred)
          /\ Len(entry.y_true[1]) = Len(entry.y_pred[1])
          /\ \E b \in DOMAIN entry.y_true : \E t \in DOMAIN entry.y_true[b] :
                 entry.y_true[b][t] >= Len(entry.y_pred[1][1]))
        => Invalid("Label value must not be greater than vocabulary size.")

MeanErrors == {"mean_squared_error", "mean_absolute_error"}
AllFinite(a) == \A i \in DOMAIN a : IsFinite(a[i])

\* C5 as stated, read on arrays of finite floats only: for every non-empty array
\* y, mean_squared_error(y, y) and mean_absolute_error(y, y) are exactly 0; for
\* equal-length arguments both results are >= 0, and are 0 only if the arguments
\* are element-wise equal.
C5_ZeroExactlyWhenEqual ==
    (Done /\ fn \in MeanErrors /\ Len(entry.y_true) = Len(entry.y_pred)
          /\ Len(entry.y_true) >= 1
          /\ AllFinite(entry.y_true) /\ AllFinite(entry.y_pred)) =>
        /\ entry.y_true = entry.y_pred => result.value = Zero
        /\ Returned /\ FLe(Zero, result.value)
        /\ result.value = Zero => entry.y_true = entry.y_pred

\* C5, amended: for every non-empty array y of finite floats both functions return
\* exactly 0 on (y, y); for equal-length non-empty arrays of finite floats both
\* results are >= 0 (possibly +inf).  A result of 0 does not imply equal arguments.
C5_ZeroOnEqualFinite ==
    (Done /\ fn \in MeanErrors /\ Len(entry.y_true) = Len(entry.y_pred)
          /\ Len(entry.y_true) >= 1
          /\ AllFinite(entry.y_true) /\ AllFinite(entry.y_pred)) =>
        /\ entry.y_true = entry.y_pred => result.value = Zero
        /\ Returned /\ FLe(Zero, result.value)

\* C5's case: mean_squared_error was called on (y, y) for a non-empty finite y with
\* a non-zero element, and returned 0.
C5_Witness ==
    /\ Done
    /\ fn = "mean_squared_error"
    /\ entry.y_true = entry.y_pred
    /\ AllFinite(entry.y_true)
    /\ \E i \in DOMAIN entry.y_true : entry.y_true[i] # Zero
    /\ result = Ret(Zero)

\* h(e): 0.5 e^2 if |e| <= delta, else delta |e| - 0.5 delta^2.
HuberQuadratic(e) == FMul(Half, FMul(e, e))
HuberLinear(e, delta) == FSub(FMul(delta, FAbs(e)), FMul(Half, FMul(delta, delta)))
HuberTerm(e, delta) ==
    IF ~QLt(delta, FAbs(e)) THEN HuberQuadratic(e) ELSE HuberLinear(e, delta)

\* C6: huber_loss on arrays of one length with delta > 0 returns the mean of h(e)
\* over e = y_true - y_pred; at |e| = delta (the quadratic branch) both branches
\* give 0.5 delta^2.
C6_HuberPiecewise ==
    (Done /\ fn = "huber_loss" /\ Len(entry.y_true) = Len(entry.y_pred)) =>
        LET e == [i \in DOMAIN entry.y_true |-> FSub(entry.y_true[i], entry.y_pred[i])]
            half_delta_squared == FMul(Half, FMul(hyper.delta, hyper.delta))
        IN  /\ result = Ret(np_mean([i \in DOMAIN e |-> HuberTerm(e[i], hyper.delta)]))
            /\ \A i \in DOMAIN e : FAbs(e[i]) = hyper.delta =>
                   /\ HuberTerm(e[i], hyper.delta) = HuberQuadratic(e[i])
                   /\ HuberQuadratic(e[i]) = half_delta_squared
                   /\ HuberLinear(e[i], hyper.delta) = half_delta_squared

\* C6's case: huber_loss returned for an array with one error at |e| = delta and
\* one beyond it.
C6_Witness ==
    /\ Done
    /\ fn = "huber_loss"
    /\ Len(entry.y_true) = Len(entry.y_pred)
    /\ \E i \in DOMAIN entry.y_true :
           FAbs(FSub(entry.y_true[i], entry.y_pred[i])) = hyper.delta
    /\ \E i \in DOMAIN entry.y_true :
           QLt(hyper.delta, FAbs(FSub(entry.y_true[i], entry.y_pred[i])))
    /\ Returned

\* C7: after every call, returned or raised, each of the caller's arrays holds the
\* contents it held at the call.
C7_ArgumentsUnchanged ==
    Done =>
        /\ y_true = entry.y_true
        /\ y_pred = entry.y_pred
        /\ inputs = entry.inputs
        /\ target = entry.target

\* C7's case: binary_cross_entropy returned after clipping changed a value (a
\* prediction of 0), and the caller's y_pred still holds the 0.
C7_Witness ==
    /\ Done
    /\ fn = "binary_cross_entropy"
    /\ Returned
    /\ \E i \in DOMAIN entry.y_pred : entry.y_pred[i] = Zero /\ y_pred[i] = Zero

\* Euclidean distance between the two vectors of a pair.
Distance(pair) ==
    FSqrt(np_sum([k \in DOMAIN pair[1] |->
                     FMul(FSub(pair[1][k], pair[2][k]), FSub(pair[1][k], pair[2][k]))]))

\* The term of one batch entry: d for a similar pair, max(0, m - d) for a
\* dissimilar one.
ContrastiveTerm(pair, t, m) ==
    IF t = Zero THEN Distance(pair)
    ELSE IF QLt(Distance(pair), m) THEN FSub(m, Distance(pair)) ELSE Zero

ContrastiveValid ==
    /\ fn = "contrastive_loss"
    /\ Len(entry.inputs) = Len(entry.target)
    /\ Len(entry.inputs[1]) = 2
    /\ \A b \in DOMAIN entry.target : entry.target[b] \in {Zero, One}

C9_HingeMean ==
    (Done /\ fn = "hinge_loss" /\ Len(entry.y_true) = Len(entry.y_pred)
          /\ \A i \in DOMAIN entry.y_true : entry.y_true[i] \in {F(-1), One}) =>
        LET prod == [i \in DOMAIN entry.y_true |->
                        FMul(entry.y_true[i], entry.y_pred[i])]
            term == [i \in DOMAIN prod |->
                        IF ~QLt(prod[i], One) THEN Zero ELSE FSub(One, prod[i])]
        IN  /\ result = Ret(np_mean(term))
            /\ ~FLt(result.value, Zero)
            /\ (entry.y_true = HingeDoctestTrue /\ entry.y_pred = HingeDoctestPred)
                   => result.value = Q(152, 100)

\* C9's case: hinge_loss returned 1.52 on the doctest's arrays.
C9_Witness ==
    /\ Done
    /\ fn = "hinge_loss"
    /\ entry.y_true = HingeDoctestTrue
    /\ entry.y_pred = HingeDoctestPred
    /\ result = Ret(Q(152, 100))

\* C10: mean_absolute_percentage_error on non-empty arrays of one length with
\* epsilon # 0 divides by y', y_true with every 0 replaced by epsilon and every
\* other entry kept: no divisor is 0, the result is the mean of
\* |(y' - y_pred) / y'|, and on the doctest's arrays it is 0.13125.
C10_PercentageError ==
    (Done /\ fn = "mean_absolute_percentage_error"
          /\ Len(entry.y_true) = Len(entry.y_pred) /\ Len(entry.y_true) >= 1
          /\ hyper.epsilon # Zero) =>
        LET y == [i \in DOMAIN entry.y_true |->
                     IF entry.y_true[i] = Zero THEN hyper.epsilon ELSE entry.y_true[i]]
        IN  /\ \A i \in DOMAIN y : y[i] # Zero
            /\ result = Ret(np_mean([i \in DOMAIN y |->
                               FAbs(FDiv(FSub(y[i], entry.y_pred[i]), y[i]))]))
            /\ (entry.y_true = PercentDoctestTrue /\ entry.y_pred = PercentDoctestPred)
                   => result.value = Q(13125, 100000)

\* C10's case: mean_absolute_percentage_error returned a finite number for an
\* all-zero y_true.
C10_Witness ==
    /\ Done
    /\ fn = "mean_absolute_percentage_error"
    /\ entry.y_true = <<Zero, Zero>>
    /\ Len(entry.y_pred) = 2
    /\ Returned
    /\ IsFinite(result.value)

\* ---- C11: the values handed to np.log
BinaryFunctions == {"binary_cross_entropy", "binary_focal_cross_entropy"}
LogFunctions ==
    BinaryFunctions \cup {"categorical_cross_entropy", "perplexity_loss"}

\* Every float of the y_pred the call was entered with.
PredictionValues ==
    IF fn \in BinaryFunctions THEN entry.y_pred
    ELSE IF fn = "categorical_cross_entropy" THEN Flatten(entry.y_pred)
    ELSE Flatten(Flatten(entry.y_pred))

EpsilonInRange == FLt(Zero, hyper.epsilon) /\ FLe(hyper.epsilon, Half)
InInterval(x, lo, hi) == FLe(lo, x) /\ FLe(x, hi)

\* A call of one of the four functions that take logarithms, which passed its
\* validation and returned, with 0 < epsilon <= 1/2 and a y_pred of finite floats.
LogCall ==
    /\ Done
    /\ fn \in LogFunctions
    /\ Returned
    /\ EpsilonInRange
    /\ AllFinite(PredictionValues)

PassedPerplexityChecks ==
    /\ Done
    /\ fn = "perplexity_loss"
    /\ result.kind # "ValueError"

\* The probability clipped and handed to np.log for position (b, t); log_args
\* holds them row by row.
SelectedLogArgument(b, t) == log_args[(b - 1) * Len(entry.y_true[1]) + t]

\* C12: in perplexity_loss, for every input that passes the three validation
\* checks, every label w = y_true[b][t] satisfies 0 <= w < vocab_size, the one-hot
\* selection does not index outside the vocabulary axis, and the probability
\* selected for position (b, t) is y_pred[b][t][w] (here: its clipped value is
\* the value handed to np.log), never that of a class counted from the end.
C12_LabelsSelectOwnClass ==
    PassedPerplexityChecks =>
        LET vocab_size == Len(entry.y_pred[1][1])
        IN  /\ Returned
            /\ \A b \in DOMAIN entry.y_true : \A t \in DOMAIN entry.y_true[b] :
                    LET w == entry.y_true[b][t]
                    IN  /\ 0 <= w /\ w < vocab_size
                        /\ SelectedLogArgument(b, t) =
                               Clip1(entry.y_pred[b][t][w + 1], hyper.epsilon, One)
====
